---- MODULE Spec2Model ----
(***************************************************************************)
(* Beeminder plugin for Obsidian (src/main.ts, queue in                    *)
(* src/unnamed/part_002): per-goal interval timers, the shared update      *)
(* queue with its drain tick, the reconciliation of one document metric    *)
(* with the goal's last remote datapoint, the day-stamp computation and    *)
(* the settings handlers.                                                  *)
(*                                                                         *)
(* Conventions.  Positions in settings.goals are 1-based here (index i of  *)
(* the model is index i-1 of the code).  A time string "HH:mm" is the pair *)
(* <<h, m>>.  An instant is the wall clock of the configured timezone:     *)
(* a calendar date <<y, mo, d>> and the minute of the day.  A day-stamp    *)
(* 'YYYYMMDD' is the number y*10000 + mo*100 + d.  An async handler is     *)
(* split at its awaits: one action per stretch of code between awaits.     *)
(***************************************************************************)
EXTENDS Integers, Sequences, FiniteSets, TLC

VARIABLES
    goals,                \* settings.goals
    beeminderDayEndTime,  \* settings.beeminderDayEndTime, <<h, m>>
    intervalIds,          \* ExamplePlugin.intervalIds: slug -> timer id
    timers,               \* live interval timers of the host window (goal timers)
    queueTimer,           \* TRUE while the interval of startQueueProcessor is live
    updateQueue,          \* Queue.elements
    isProcessingQueue,    \* ExamplePlugin.isProcessingQueue
    tasks,                \* running checkAndUpdateBeeminder calls, suspended at an await
    remote,               \* the service: slug -> sequence of datapoints
    remoteDeadline,       \* the service's own day boundary for the goals, minutes
    now,                  \* wall clock: [date, min]
    vault,                \* document store: path -> text
    dailyNote,            \* what getDailyNote resolves to (a path or NoFile)
    commands,             \* host command registry: command id -> goal position (0 = all)
    pendingSaves,         \* saveSettings calls suspended at `await saveData`
    unloaded,             \* onunload has run
    notices,              \* number of Notice pop-ups shown
    stamp,                \* last day-stamp evaluation: [cutoff, at, value] or NoStamp
    dayEndHour,           \* settings.dayEndHour   (hour/minute slider tab, part_001)
    dayEndMinute,         \* settings.dayEndMinute
    settingsDayEndTime,   \* settings.dayEndTime, <<h, m>>
    hourValue,            \* local of display(): what the hour slider shows
    minuteValue,          \* local of display(): what the minute slider shows
    returned,             \* last call on a Queue taken alone: [op, value]
    enqueues,             \* calls of enqueue on that Queue
    dequeues              \* calls of dequeue on that Queue that returned an element

vars == <<goals, beeminderDayEndTime, intervalIds, timers, queueTimer, updateQueue,
          isProcessingQueue, tasks, remote, remoteDeadline, now, vault, dailyNote,
          commands, pendingSaves, unloaded, notices, stamp, dayEndHour, dayEndMinute,
          settingsDayEndTime, hourValue, minuteValue, returned, enqueues, dequeues>>

sliderVars == <<dayEndHour, dayEndMinute, settingsDayEndTime, hourValue, minuteValue>>
queueVars == <<returned, enqueues, dequeues>>

\* what a call that returns nothing, or undefined, leaves
Undefined == "<undefined>"
NoCall == [op |-> "", value |-> Undefined]

(***************************************************************************)
(* Bounds of the model                                                     *)
(***************************************************************************)
MaxGoals == 2
MaxQueue == 2
MaxTasks == 2
MaxTimers == 3
MaxDatapoints == 2
MaxDays == 1
MaxPendingSaves == 1

NoFile == "<none>"
NoStamp == [cutoff |-> <<0, 0>>, at |-> <<0, 0, 0, 0>>, value |-> 0]

(***************************************************************************)
(* Calendar (what moment's add/subtract(1,'day') and format do)            *)
(***************************************************************************)
IsLeap(y) == (y % 4 = 0 /\ y % 100 # 0) \/ y % 400 = 0

DaysInMonth(y, mo) ==
    IF mo = 2 THEN (IF IsLeap(y) THEN 29 ELSE 28)
    ELSE IF mo \in {4, 6, 9, 11} THEN 30 ELSE 31

AddDay(date) ==
    LET y == date[1] mo == date[2] d == date[3] IN
    IF d < DaysInMonth(y, mo) THEN <<y, mo, d + 1>>
    ELSE IF mo < 12 THEN <<y, mo + 1, 1>>
    ELSE <<y + 1, 1, 1>>

SubtractDay(date) ==
    LET y == date[1] mo == date[2] d == date[3] IN
    IF d > 1 THEN <<y, mo, d - 1>>
    ELSE IF mo > 1 THEN <<y, mo - 1, DaysInMonth(y, mo - 1)>>
    ELSE <<y - 1, 12, 31>>

\* moment.format('YYYYMMDD')
FormatYYYYMMDD(date) == date[1] * 10000 + date[2] * 100 + date[3]

\* BeeminderSettingTab.timeStringToMinutes / minutesToTimeString
timeStringToMinutes(ts) == ts[1] * 60 + ts[2]
minutesToTimeString(minutes) == <<minutes \div 60, minutes % 60>>

validateTime(hours, minutes) == ~(hours = 6 /\ minutes > 0)

\* getCurrentDayStamp with the boundary minute counted as before the cutoff
getCurrentDayStampLate(at, dayEndTime) ==
    IF at.min <= timeStringToMinutes(dayEndTime)
    THEN FormatYYYYMMDD(at.date)
    ELSE FormatYYYYMMDD(AddDay(at.date))

\* the day of the older pushBeeminderDataPoint: yesterday before a cutoff of the small
\* hours, the calendar date otherwise
getCurrentDayStampNightOwl(at, dayEndTime) ==
    IF dayEndTime[1] <= 6 /\ at.min < timeStringToMinutes(dayEndTime)
    THEN FormatYYYYMMDD(SubtractDay(at.date))
    ELSE FormatYYYYMMDD(at.date)

(***************************************************************************)
(* getCurrentDayStamp(false): now.isBefore(dayEndTime of now's date)       *)
(* ? now.format('YYYYMMDD') : now.add(1,'day').format('YYYYMMDD')          *)
(***************************************************************************)
getCurrentDayStamp(at, dayEndTime) ==
    IF at.min < timeStringToMinutes(dayEndTime)
    THEN FormatYYYYMMDD(at.date)
    ELSE FormatYYYYMMDD(AddDay(at.date))

(***************************************************************************)
(* The service's rule for the day of an instant (spec section 4.1): a      *)
(* deadline in [00:00, 06:00] keeps the small hours with the day before, a *)
(* deadline in [07:00, 23:59] starts the next day at the deadline.         *)
(***************************************************************************)
ServiceDayStamp(at, deadline) ==
    IF deadline <= 360
    THEN (IF at.min < deadline THEN FormatYYYYMMDD(SubtractDay(at.date))
          ELSE FormatYYYYMMDD(at.date))
    ELSE (IF at.min >= deadline THEN FormatYYYYMMDD(AddDay(at.date))
          ELSE FormatYYYYMMDD(at.date))

(***************************************************************************)
(* Settings: the values the settings tab can put in a goal                 *)
(***************************************************************************)
Slugs == {"", "g1", "g2"}
Paths == {"a.md", "b.md"}
MetricTypes == {"wordCount", "completedTasks", "uncompletedTasks"}
PollingChoices == {[hours |-> 0, minutes |-> 5, seconds |-> 0],
                   [hours |-> 0, minutes |-> 0, seconds |-> 0]}

\* addNewGoal: the goal pushed by the 'Add ... Goal' buttons
NewGoal(isDailyNote) ==
    [slug |-> "", filePath |-> "", isAutoSubmit |-> FALSE, metricType |-> "wordCount",
     pollingFrequency |-> [hours |-> 0, minutes |-> 5, seconds |-> 0],
     isDailyNote |-> isDailyNote]

Range(f) == {f[x] : x \in DOMAIN f}

\* window.setInterval hands out an id no live timer has
FreshId(tm) == CHOOSE n \in 1..(Cardinality(tm) + 1) : \A t \in tm : t.id # n

totalMilliseconds(goal) ==
    (goal.pollingFrequency.hours * 3600 + goal.pollingFrequency.minutes * 60
     + goal.pollingFrequency.seconds) * 1000

\* the forEach of setupAutoSubmit from position i on: st = [tm, ids]
RECURSIVE ArmFrom(_, _, _)
ArmFrom(gs, i, st) ==
    IF i > Len(gs) THEN st
    ELSE IF gs[i].isAutoSubmit
    THEN LET id == FreshId(st.tm)
             slug == gs[i].slug
         IN ArmFrom(gs, i + 1,
               [tm  |-> st.tm \cup {[id |-> id, index |-> i, ms |-> totalMilliseconds(gs[i])]},
                ids |-> [s \in (DOMAIN st.ids) \cup {slug} |->
                           IF s = slug THEN id ELSE st.ids[s]]])
    ELSE ArmFrom(gs, i + 1, st)

\* Object.values(this.intervalIds).forEach(clearInterval)
ClearIntervals(tm, ids) == {t \in tm : t.id \notin Range(ids)}

EmptyIds == [s \in {} |-> 0]

\* setupAutoSubmit: clear what intervalIds names, forget it, arm one interval per auto-submit goal
setupAutoSubmit(gs, tm, ids) ==
    ArmFrom(gs, 1, [tm |-> ClearIntervals(tm, ids), ids |-> EmptyIds])

MaxCommands == 10

\* updateCommands: 0 is 'submit for all goals', n is 'submit for goal n'
updateCommands(gs) == {0} \cup {n \in 1..MaxCommands : n <= Len(gs)}

(***************************************************************************)
(* saveSettings: `await saveData`, then setupAutoSubmit and updateCommands *)
(***************************************************************************)
\* the call up to its await
SaveSettingsCall ==
    /\ pendingSaves < MaxPendingSaves
    /\ pendingSaves' = pendingSaves + 1

\* the continuation after saveData resolved
SaveSettingsResume ==
    /\ pendingSaves > 0
    /\ LET st == setupAutoSubmit(goals, timers, intervalIds) IN
       /\ Cardinality(st.tm) <= MaxTimers
       /\ timers' = st.tm
       /\ intervalIds' = st.ids
    /\ commands' = updateCommands(goals)
    /\ pendingSaves' = pendingSaves - 1
    /\ UNCHANGED <<goals, beeminderDayEndTime, queueTimer, updateQueue, isProcessingQueue,
                   tasks, remote, remoteDeadline, now, vault, dailyNote, unloaded,
                   notices, sliderVars, queueVars, stamp>>

runtimeVars == <<intervalIds, timers, queueTimer, updateQueue, isProcessingQueue, tasks,
                 remote, remoteDeadline, now, vault, dailyNote, commands, unloaded,
                 notices, sliderVars, queueVars, stamp>>

(***************************************************************************)
(* Settings tab, goal rows (createGoalSetting, addNewGoal)                 *)
(***************************************************************************)
SetField(i, f, v) == [goals EXCEPT ![i] = [goals[i] EXCEPT ![f] = v]]

\* an 'Add ... Goal' button is pressed while fewer than limit goals are configured
AddNewGoalUpTo(limit) ==
    \E isDailyNote \in BOOLEAN :
        /\ ~unloaded
        /\ Len(goals) < limit
        /\ goals' = Append(goals, NewGoal(isDailyNote))
        /\ SaveSettingsCall
        /\ UNCHANGED <<beeminderDayEndTime>> /\ UNCHANGED runtimeVars

AddNewGoal == AddNewGoalUpTo(MaxGoals)

SetSlug ==
    \E i \in 1..Len(goals), v \in Slugs :
        /\ ~unloaded
        /\ v # goals[i].slug
        /\ goals' = SetField(i, "slug", v)
        /\ SaveSettingsCall
        /\ UNCHANGED <<beeminderDayEndTime>> /\ UNCHANGED runtimeVars

\* goals.filter(g => g !== goal)
RemoveGoal ==
    \E i \in 1..Len(goals) :
        /\ ~unloaded
        /\ goals' = SubSeq(goals, 1, i - 1) \o SubSeq(goals, i + 1, Len(goals))
        /\ SaveSettingsCall
        /\ UNCHANGED <<beeminderDayEndTime>> /\ UNCHANGED runtimeVars

ToggleAutoSubmit ==
    \E i \in 1..Len(goals) :
        /\ ~unloaded
        /\ goals' = SetField(i, "isAutoSubmit", ~goals[i].isAutoSubmit)
        /\ SaveSettingsCall
        /\ UNCHANGED <<beeminderDayEndTime>> /\ UNCHANGED runtimeVars

\* the 'Polling Frequency' row exists only while the goal is auto-submit
SetPollingFrequency ==
    \E i \in 1..Len(goals), v \in PollingChoices :
        /\ ~unloaded
        /\ goals[i].isAutoSubmit
        /\ v # goals[i].pollingFrequency
        /\ goals' = SetField(i, "pollingFrequency", v)
        /\ SaveSettingsCall
        /\ UNCHANGED <<beeminderDayEndTime>> /\ UNCHANGED runtimeVars

(***************************************************************************)
(* Settings tab, 'Day End Time' slider with its reset button and the       *)
(* 'Beeminder Day End Time' text field                                     *)
(***************************************************************************)
\* minutes of the day the slider is moved to and the clock is read at
MinuteChoices == {0, 1, 120, 359, 360, 361, 390, 419, 420, 421, 720, 1439}
TimeStrings == {minutesToTimeString(v) : v \in MinuteChoices}

DayEndSliderChange ==
    \E value \in MinuteChoices :
        /\ ~unloaded
        /\ minutesToTimeString(value) # beeminderDayEndTime
        /\ beeminderDayEndTime' = minutesToTimeString(value)
        /\ stamp' = NoStamp
        /\ SaveSettingsCall
        /\ UNCHANGED <<goals, intervalIds, timers, queueTimer, updateQueue,
                       isProcessingQueue, tasks, remote, remoteDeadline, now, vault,
                       dailyNote, commands, unloaded, notices, sliderVars, queueVars>>

DayEndReset ==
    /\ ~unloaded
    /\ beeminderDayEndTime' = <<0, 0>>
    /\ stamp' = NoStamp
    /\ SaveSettingsCall
    /\ UNCHANGED <<goals, intervalIds, timers, queueTimer, updateQueue,
                   isProcessingQueue, tasks, remote, remoteDeadline, now, vault,
                   dailyNote, commands, unloaded, notices, sliderVars, queueVars>>

DayEndTextChange ==
    \E value \in TimeStrings :
        /\ ~unloaded
        /\ value # beeminderDayEndTime
        /\ beeminderDayEndTime' = value
        /\ stamp' = NoStamp
        /\ SaveSettingsCall
        /\ UNCHANGED <<goals, intervalIds, timers, queueTimer, updateQueue,
                       isProcessingQueue, tasks, remote, remoteDeadline, now, vault,
                       dailyNote, commands, unloaded, notices, sliderVars, queueVars>>

(***************************************************************************)
(* The clock, and one evaluation of getCurrentDayStamp(false)              *)
(***************************************************************************)
StartDates == {<<2023, 12, 31>>, <<2024, 2, 28>>, <<2024, 2, 29>>, <<2024, 3, 1>>,
               <<2023, 2, 28>>, <<2024, 4, 30>>}

ClockAdvance ==
    /\ \/ \E m \in MinuteChoices :
             /\ m > now.min
             /\ now' = [now EXCEPT !.min = m]
       \/ \E m \in MinuteChoices :
             /\ now.day < MaxDays
             /\ now' = [date |-> AddDay(now.date), min |-> m, day |-> now.day + 1]
    /\ stamp' = NoStamp
    /\ UNCHANGED <<goals, beeminderDayEndTime, intervalIds, timers, queueTimer, updateQueue,
                   isProcessingQueue, tasks, remote, remoteDeadline, vault, dailyNote,
                   commands, pendingSaves, unloaded, notices, sliderVars, queueVars>>

EvalDayStamp ==
    /\ stamp = NoStamp
    /\ stamp' = [cutoff |-> beeminderDayEndTime,
                 at     |-> <<now.date[1], now.date[2], now.date[3], now.min>>,
                 value  |-> getCurrentDayStamp(now, beeminderDayEndTime)]
    /\ UNCHANGED <<goals, beeminderDayEndTime, intervalIds, timers, queueTimer, updateQueue,
                   isProcessingQueue, tasks, remote, remoteDeadline, now, vault, dailyNote,
                   commands, pendingSaves, unloaded, notices, sliderVars, queueVars>>

(***************************************************************************)
(* State after onload                                                      *)
(***************************************************************************)
\* what onload builds from the loaded settings gs
Loaded(gs) ==
    LET st == setupAutoSubmit(gs, {}, EmptyIds) IN
    /\ goals = gs
    /\ timers = st.tm
    /\ intervalIds = st.ids
    /\ commands = updateCommands(gs)
    /\ queueTimer = TRUE
    /\ updateQueue = <<>>
    /\ isProcessingQueue = FALSE
    /\ tasks = <<>>
    /\ pendingSaves = 0
    /\ unloaded = FALSE
    /\ notices = 0
    /\ dayEndHour = 0
    /\ dayEndMinute = 0
    /\ settingsDayEndTime = <<0, 0>>
    /\ hourValue = 0
    /\ minuteValue = 0
    /\ returned = NoCall
    /\ enqueues = 0
    /\ dequeues = 0
    /\ stamp = NoStamp

\* first start: DEFAULT_SETTINGS
InitDefault ==
    /\ Loaded(<<>>)
    /\ beeminderDayEndTime = <<0, 0>>
    /\ remote = [s \in Slugs |-> <<>>]
    /\ remoteDeadline = 0
    /\ now = [date |-> <<2024, 2, 29>>, min |-> 120, day |-> 0]
    /\ vault = [p \in {"a.md"} |-> <<>>]
    /\ dailyNote = NoFile

InitDay ==
    /\ Loaded(<<>>)
    /\ beeminderDayEndTime = <<0, 0>>
    /\ remote = [s \in Slugs |-> <<>>]
    /\ remoteDeadline = 0
    /\ now \in [date : StartDates, min : MinuteChoices, day : {0}]
    /\ vault = [p \in {"a.md"} |-> <<>>]
    /\ dailyNote = NoFile

\* the day-stamp computation under every cutoff the settings tab can store
NextDay ==
    \/ DayEndSliderChange
    \/ DayEndReset
    \/ DayEndTextChange
    \/ SaveSettingsResume
    \/ ClockAdvance
    \/ EvalDayStamp

SpecDay == InitDay /\ [][NextDay]_vars

\* the goal rows of the settings tab and the reconfiguration they cause
NextConfig ==
    \/ AddNewGoal
    \/ SetSlug
    \/ RemoveGoal
    \/ ToggleAutoSubmit
    \/ SetPollingFrequency
    \/ SaveSettingsResume

SpecConfig == InitDefault /\ [][NextConfig]_vars

(***************************************************************************)
(* SpecCommands: goals added and removed past the number of per-goal       *)
(* commands updateCommands registers                                       *)
(***************************************************************************)
MaxGoalRows == 11

AddGoalRow == AddNewGoalUpTo(MaxGoalRows)

NextCommands ==
    \/ AddGoalRow
    \/ RemoveGoal
    \/ SaveSettingsResume

SpecCommands == InitDefault /\ [][NextCommands]_vars

(***************************************************************************)
(* Metric of a document text (the switch of checkAndUpdateBeeminder).  A   *)
(* text is a sequence of one-character strings.                            *)
(***************************************************************************)
WhiteSpace == {" ", "\t", "\n", "\r"}

\* number of matches of /\s+/ in text[i..]: maximal runs of whitespace
RECURSIVE WhiteSpaceRuns(_, _)
WhiteSpaceRuns(text, i) ==
    IF i > Len(text) THEN 0
    ELSE (IF text[i] \in WhiteSpace /\ (i = 1 \/ text[i - 1] \notin WhiteSpace)
          THEN 1 ELSE 0) + WhiteSpaceRuns(text, i + 1)

\* fileContent.split(/\s+/).length
wordCount(text) == WhiteSpaceRuns(text, 1) + 1

\* fileContent.split(/\r?\n/): cur is the line being collected
RECURSIVE SplitLines(_, _, _)
SplitLines(text, i, cur) ==
    IF i > Len(text) THEN <<cur>>
    ELSE IF text[i] = "\n" THEN <<cur>> \o SplitLines(text, i + 1, <<>>)
    ELSE IF text[i] = "\r" /\ i < Len(text) /\ text[i + 1] = "\n"
         THEN <<cur>> \o SplitLines(text, i + 2, <<>>)
    ELSE SplitLines(text, i + 1, Append(cur, text[i]))

RECURSIVE TrimStart(_)
TrimStart(line) ==
    IF line # <<>> /\ Head(line) \in WhiteSpace THEN TrimStart(Tail(line)) ELSE line

RECURSIVE TrimEnd(_)
TrimEnd(line) ==
    IF line # <<>> /\ line[Len(line)] \in WhiteSpace
    THEN TrimEnd(SubSeq(line, 1, Len(line) - 1)) ELSE line

\* String.prototype.trim / startsWith
Trim(line) == TrimEnd(TrimStart(line))
StartsWith(line, prefix) ==
    Len(line) >= Len(prefix) /\ SubSeq(line, 1, Len(prefix)) = prefix

CompletedMarker == <<"-", " ", "[", "x", "]">>
UncompletedMarker == <<"-", " ", "[", " ", "]">>

\* the filter without line.trim()
taskCountUntrimmed(text, marker) ==
    LET lines == SplitLines(text, 1, <<>>) IN
    Cardinality({k \in 1..Len(lines) : StartsWith(lines[k], marker)})

taskCount(text, marker) ==
    LET lines == SplitLines(text, 1, <<>>) IN
    Cardinality({k \in 1..Len(lines) : StartsWith(Trim(lines[k]), marker)})

\* a switch whose default falls through to the requests
KnownMetricAny(metricType) == TRUE

KnownMetric(metricType) == metricType \in MetricTypes

MetricValue(text, metricType) ==
    CASE metricType = "wordCount" -> wordCount(text)
      [] metricType = "completedTasks" -> taskCount(text, CompletedMarker)
      [] metricType = "uncompletedTasks" -> taskCount(text, UncompletedMarker)
      [] OTHER -> 0

(***************************************************************************)
(* Queue (src/unnamed/part_002)                                            *)
(***************************************************************************)
\* an enqueue that skips an element the queue already holds
enqueueOnce(q, element) ==
    IF \E i \in 1..Len(q) : q[i] = element THEN q ELSE Append(q, element)

enqueue(q, element) == Append(q, element)
isEmpty(q) == Len(q) = 0
\* splice(0): the oldest entry, and the queue emptied
dequeueAll(q) == [value |-> Head(q), rest |-> <<>>]
\* elements.pop(): the newest entry
dequeueLast(q) == [value |-> q[Len(q)], rest |-> SubSeq(q, 1, Len(q) - 1)]
\* peek: the oldest entry, left in the queue
dequeueKeeps(q) == [value |-> Head(q), rest |-> q]
\* elements.shift() as [value, rest]: undefined on an empty array, which stays empty
dequeue(q) ==
    IF Len(q) = 0
    THEN [value |-> Undefined, rest |-> <<>>]
    ELSE [value |-> Head(q), rest |-> Tail(q)]

\* a peek at the other end of the queue
peekLast(q) == IF ~isEmpty(q) THEN q[Len(q)] ELSE Undefined

\* !this.isEmpty() ? this.elements[0] : undefined
peek(q) == IF ~isEmpty(q) THEN q[1] ELSE Undefined

length(q) == Len(q)

(***************************************************************************)
(* checkAndUpdateBeeminder up to its first await                           *)
(***************************************************************************)
\* settings.goals.find(g => g.filePath === filePath || g.isDailyNote): position or 0
FindGoal(gs, filePath) ==
    LET hits == {i \in 1..Len(gs) : gs[i].filePath = filePath \/ gs[i].isDailyNote} IN
    IF hits = {} THEN 0 ELSE CHOOSE i \in hits : \A j \in hits : i <= j

\* getAbstractFileByPath taken for a file whatever it returns
ResolveFileUnchecked(goal, filePath) ==
    IF goal.isDailyNote THEN dailyNote ELSE filePath

\* getAbstractFileByPath(...) instanceof TFile, or getDailyNote()
ResolveFile(goal, filePath) ==
    IF goal.isDailyNote THEN dailyNote
    ELSE IF filePath \in DOMAIN vault THEN filePath ELSE NoFile

\* the call reaches `await vault.read(file)` exactly when a goal and its file are found
Starts(filePath) ==
    /\ FindGoal(goals, filePath) # 0
    /\ ResolveFile(goals[FindGoal(goals, filePath)], filePath) # NoFile

NoTs == <<0, 0, 0, 0>>
\* { id: '', value: 0, daystamp: '' }
NoDatapoint == [id |-> 0, value |-> 0, daystamp |-> 0]

NewTask(src, filePath) ==
    LET g == FindGoal(goals, filePath) IN
    [src |-> src, goal |-> g, file |-> ResolveFile(goals[g], filePath), pc |-> "read",
     value |-> 0, fetched |-> "", last |-> NoDatapoint, id |-> 0, today |-> 0,
     ts |-> NoTs]

RemoveAt(seq, k) == SubSeq(seq, 1, k - 1) \o SubSeq(seq, k + 1, Len(seq))

(***************************************************************************)
(* Triggers                                                                *)
(***************************************************************************)
\* a goal interval fires: autoSubmitDatapoint(index)
TimerFire ==
    \E t \in timers :
        /\ IF t.index > Len(goals)
           THEN UNCHANGED tasks          \* goal is undefined: goal.slug throws
           ELSE LET goal == goals[t.index]
                    file == ResolveFile(goal, goal.filePath)
                IN IF file # NoFile /\ Starts(file)
                   THEN /\ Len(tasks) < MaxTasks
                        /\ tasks' = Append(tasks, NewTask("timer", file))
                   ELSE UNCHANGED tasks
        /\ UNCHANGED <<goals, beeminderDayEndTime, intervalIds, timers, queueTimer,
                       updateQueue, isProcessingQueue, remote, remoteDeadline, now, vault,
                       dailyNote, commands, pendingSaves, unloaded, notices, sliderVars, queueVars, stamp>>

\* processQueue without the test of isProcessingQueue
QueueTickUnguarded ==
    /\ queueTimer
    /\ IF isEmpty(updateQueue)
       THEN UNCHANGED <<updateQueue, isProcessingQueue, tasks>>
       ELSE LET d == dequeue(updateQueue) IN
            /\ updateQueue' = d.rest
            /\ IF d.value # "" /\ Starts(d.value)
               THEN /\ Len(tasks) < MaxTasks
                    /\ isProcessingQueue' = TRUE
                    /\ tasks' = Append(tasks, NewTask("queue", d.value))
               ELSE /\ isProcessingQueue' = FALSE
                    /\ UNCHANGED tasks
    /\ UNCHANGED <<goals, beeminderDayEndTime, intervalIds, timers, queueTimer, remote,
                   remoteDeadline, now, vault, dailyNote, commands, pendingSaves, unloaded,
                   notices, sliderVars, queueVars, stamp>>

\* the 10 s interval of startQueueProcessor fires: processQueue
QueueTick ==
    /\ queueTimer
    /\ IF isProcessingQueue \/ isEmpty(updateQueue)
       THEN UNCHANGED <<updateQueue, isProcessingQueue, tasks>>
       ELSE LET d == dequeue(updateQueue) IN
            /\ updateQueue' = d.rest
            /\ IF d.value # "" /\ Starts(d.value)
               THEN /\ Len(tasks) < MaxTasks
                    /\ isProcessingQueue' = TRUE
                    /\ tasks' = Append(tasks, NewTask("queue", d.value))
               ELSE /\ isProcessingQueue' = FALSE
                    /\ UNCHANGED tasks
    /\ UNCHANGED <<goals, beeminderDayEndTime, intervalIds, timers, queueTimer, remote,
                   remoteDeadline, now, vault, dailyNote, commands, pendingSaves, unloaded,
                   notices, sliderVars, queueVars, stamp>>

RECURSIVE EnqueueAll(_, _, _)
EnqueueAll(q, gs, i) ==
    IF i > Len(gs) THEN q ELSE EnqueueAll(enqueue(q, gs[i].filePath), gs, i + 1)

\* manualSubmitDatapoint putting the single entry at the head of the queue
manualSubmitDatapointFront(q, gs, position) ==
    IF position # 0 /\ position <= Len(gs)
    THEN <<gs[position].filePath>> \o q
    ELSE EnqueueAll(q, gs, 1)

\* manualSubmitDatapoint(goalIndex); position 0 stands for goalIndex undefined
manualSubmitDatapoint(q, gs, position) ==
    IF position # 0 /\ position <= Len(gs)
    THEN enqueue(q, gs[position].filePath)
    ELSE EnqueueAll(q, gs, 1)

\* a registered command is run
ManualSubmit ==
    \E c \in commands :
        /\ ~unloaded
        /\ updateQueue' = manualSubmitDatapoint(updateQueue, goals, c)
        /\ updateQueue' # updateQueue
        /\ Len(updateQueue') <= MaxQueue
        /\ UNCHANGED <<goals, beeminderDayEndTime, intervalIds, timers, queueTimer,
                       isProcessingQueue, tasks, remote, remoteDeadline, now, vault,
                       dailyNote, commands, pendingSaves, unloaded, notices, sliderVars, queueVars, stamp>>

(***************************************************************************)
(* The service (external): datapoints per goal slug.  A datapoint id '' is *)
(* 0, a day-stamp '' is 0.                                                 *)
(***************************************************************************)
\* how a request ends: a JSON answer, a rejected fetch / unparsable body, or an
\* HTTP error carrying a JSON object (bad token, unknown goal)
Outcomes == {"ok", "networkFailure", "errorJson"}

\* a last datapoint kept from before the goal had any
LastDatapointCached(slug, outcome) == NoDatapoint

\* an empty answer turned into a datapoint of the current day without an id
LastDatapointStamped(slug, outcome) ==
    IF outcome = "ok" /\ Len(remote[slug]) > 0
    THEN remote[slug][Len(remote[slug])]
    ELSE [id |-> 0, value |-> 0,
          daystamp |-> getCurrentDayStamp(now, beeminderDayEndTime)]

\* getBeeminderLastDatapoint on the parsed body: data[0] when data.length > 0
LastDatapoint(slug, outcome) ==
    IF outcome = "ok" /\ Len(remote[slug]) > 0
    THEN remote[slug][Len(remote[slug])]
    ELSE NoDatapoint

\* POST datapoints.json with {value, comment, timestamp}: the service files the
\* datapoint under the day its own deadline gives the timestamp
ServiceCreate(points, value, ts) ==
    Append(points,
           [id |-> Len(points) + 1, value |-> value,
            daystamp |-> ServiceDayStamp([date |-> <<ts[1], ts[2], ts[3]>>, min |-> ts[4]],
                                         remoteDeadline)])

RECURSIVE SumLen(_, _)
SumLen(f, S) ==
    IF S = {} THEN 0
    ELSE LET x == CHOOSE y \in S : TRUE IN Len(f[x]) + SumLen(f, S \ {x})

\* datapoints the service holds, over all goals
TotalDatapoints == SumLen(remote, DOMAIN remote)

\* PUT datapoints/{id}.json with {value, comment}
ServiceUpdate(points, id, value) ==
    [k \in 1..Len(points) |->
        IF points[k].id = id THEN [points[k] EXCEPT !.value = value] ELSE points[k]]

(***************************************************************************)
(* checkAndUpdateBeeminder after its awaits                                *)
(***************************************************************************)
\* a call that starts over at the GET when a request was rejected
FinishRetry(k, threw) ==
    IF threw
    THEN /\ tasks' = [tasks EXCEPT ![k] = [@ EXCEPT !.pc = "fetchLast"]]
         /\ UNCHANGED isProcessingQueue
    ELSE /\ tasks' = RemoveAt(tasks, k)
         /\ isProcessingQueue' =
               IF tasks[k].src = "queue" THEN FALSE ELSE isProcessingQueue

\* the call returns or throws: processQueue clears the flag only after a return
Finish(k, threw) ==
    /\ tasks' = RemoveAt(tasks, k)
    /\ isProcessingQueue' =
          IF tasks[k].src = "queue" /\ ~threw THEN FALSE ELSE isProcessingQueue

\* a decision that always takes the PUT
WriteRequestAlwaysUpdate(task, last, at, dayEndTime) ==
    LET today == getCurrentDayStamp(at, dayEndTime) IN
    [task EXCEPT !.pc = "update", !.last = last, !.id = last.id, !.today = today,
                 !.ts = <<at.date[1], at.date[2], at.date[3], at.min>>]

\* currentDayStamp against lastDatapoint.daystamp: PUT on the last id, or POST
WriteRequest(task, last, at, dayEndTime) ==
    LET today == getCurrentDayStamp(at, dayEndTime) IN
    IF last.daystamp = today
    THEN [task EXCEPT !.pc = "update", !.last = last, !.id = last.id, !.today = today,
                      !.ts = <<at.date[1], at.date[2], at.date[3], at.min>>]
    ELSE [task EXCEPT !.pc = "create", !.last = last, !.today = today,
                      !.ts = <<at.date[1], at.date[2], at.date[3], at.min>>]

\* vault.read resolved: the metric is computed and the last datapoint requested
ReadDone ==
    \E k \in 1..Len(tasks) :
        /\ tasks[k].pc = "read"
        /\ LET goal == goals[tasks[k].goal] IN
           IF KnownMetric(goal.metricType)
           THEN /\ tasks' = [tasks EXCEPT ![k] =
                    [@ EXCEPT !.pc = "fetchLast",
                              !.value = MetricValue(vault[tasks[k].file], goal.metricType)]]
                /\ UNCHANGED isProcessingQueue
           ELSE Finish(k, FALSE)
        /\ UNCHANGED <<goals, beeminderDayEndTime, intervalIds, timers, queueTimer,
                       updateQueue, remote, remoteDeadline, now, vault, dailyNote,
                       commands, pendingSaves, unloaded, notices, sliderVars, queueVars, stamp>>

\* the GET of getBeeminderLastDatapoint of reconciliation k ends with outcome
FetchLastEnds(k, outcome) ==
    /\ tasks[k].pc = "fetchLast"
    /\ IF outcome = "networkFailure"
       THEN Finish(k, TRUE)
       ELSE /\ tasks' = [tasks EXCEPT ![k] =
                    [WriteRequest(tasks[k],
                                  LastDatapoint(goals[tasks[k].goal].slug, outcome),
                                  now, beeminderDayEndTime)
                     EXCEPT !.fetched = outcome]]
            /\ UNCHANGED isProcessingQueue
    /\ UNCHANGED <<goals, beeminderDayEndTime, intervalIds, timers, queueTimer,
                   updateQueue, remote, remoteDeadline, now, vault, dailyNote,
                   commands, pendingSaves, unloaded, notices, sliderVars, queueVars, stamp>>

FetchLastDone ==
    \E k \in 1..Len(tasks), outcome \in Outcomes : FetchLastEnds(k, outcome)

\* a POST after which the reconciliation goes on to the PUT
CreateEndsThenUpdate(k, outcome) ==
    /\ tasks[k].pc = "create"
    /\ LET slug == goals[tasks[k].goal].slug IN
       IF outcome = "ok"
       THEN /\ TotalDatapoints < MaxDatapoints
            /\ remote' = [remote EXCEPT ![slug] =
                             ServiceCreate(@, tasks[k].value, tasks[k].ts)]
       ELSE UNCHANGED remote
    /\ tasks' = [tasks EXCEPT ![k].pc = "update"]
    /\ UNCHANGED <<goals, beeminderDayEndTime, intervalIds, timers, queueTimer,
                   updateQueue, isProcessingQueue, remoteDeadline, now, vault, dailyNote,
                   commands, pendingSaves, unloaded, notices, sliderVars, queueVars, stamp>>

\* the POST of pushBeeminderDataPoint of reconciliation k ends with outcome
CreateEnds(k, outcome) ==
    /\ tasks[k].pc = "create"
    /\ LET slug == goals[tasks[k].goal].slug IN
       IF outcome = "ok"
       THEN /\ TotalDatapoints < MaxDatapoints
            /\ remote' = [remote EXCEPT ![slug] =
                             ServiceCreate(@, tasks[k].value, tasks[k].ts)]
       ELSE UNCHANGED remote
    /\ Finish(k, outcome = "networkFailure")
    /\ UNCHANGED <<goals, beeminderDayEndTime, intervalIds, timers, queueTimer,
                   updateQueue, remoteDeadline, now, vault, dailyNote, commands,
                   pendingSaves, unloaded, notices, sliderVars, queueVars, stamp>>

CreateDone ==
    \E k \in 1..Len(tasks), outcome \in Outcomes : CreateEnds(k, outcome)

\* the PUT of updateBeeminderDataPoint of reconciliation k ends with outcome
UpdateEnds(k, outcome) ==
    /\ tasks[k].pc = "update"
    /\ LET slug == goals[tasks[k].goal].slug IN
       IF outcome = "ok"
       THEN remote' = [remote EXCEPT ![slug] =
                          ServiceUpdate(@, tasks[k].id, tasks[k].value)]
       ELSE UNCHANGED remote
    /\ Finish(k, outcome = "networkFailure")
    /\ UNCHANGED <<goals, beeminderDayEndTime, intervalIds, timers, queueTimer,
                   updateQueue, remoteDeadline, now, vault, dailyNote, commands,
                   pendingSaves, unloaded, notices, sliderVars, queueVars, stamp>>

UpdateDone ==
    \E k \in 1..Len(tasks), outcome \in Outcomes : UpdateEnds(k, outcome)

\* outcomes in which the awaited fetch and response.json() return a value
Returns == {"ok", "errorJson"}

\* the same requests when no call is rejected
FetchLastReturns ==
    \E k \in 1..Len(tasks), outcome \in Returns : FetchLastEnds(k, outcome)

CreateReturns ==
    \E k \in 1..Len(tasks), outcome \in Returns : CreateEnds(k, outcome)

UpdateReturns ==
    \E k \in 1..Len(tasks), outcome \in Returns : UpdateEnds(k, outcome)

(***************************************************************************)
(* Teardown, and the environment of a running plugin                       *)
(***************************************************************************)
\* onunload clears the intervals intervalIds names; the host drops the commands
OnUnload ==
    /\ ~unloaded
    /\ unloaded' = TRUE
    /\ timers' = ClearIntervals(timers, intervalIds)
    /\ commands' = {}
    /\ UNCHANGED <<goals, beeminderDayEndTime, intervalIds, queueTimer, updateQueue,
                   isProcessingQueue, tasks, remote, remoteDeadline, now, vault, dailyNote,
                   pendingSaves, notices, sliderVars, queueVars, stamp>>

DocTexts == {<<"a", " ", "b">>,
             <<"-", " ", "[", "x", "]", " ", "a", "\n", "-", " ", "[", " ", "]">>}

\* the user edits a tracked document
EditDocument ==
    \E p \in DOMAIN vault, text \in DocTexts :
        /\ \E i \in 1..Len(goals) : goals[i].filePath = p
        /\ text # vault[p]
        /\ vault' = [vault EXCEPT ![p] = text]
        /\ UNCHANGED <<goals, beeminderDayEndTime, intervalIds, timers, queueTimer,
                       updateQueue, isProcessingQueue, tasks, remote, remoteDeadline, now,
                       dailyNote, commands, pendingSaves, unloaded, notices, sliderVars, queueVars, stamp>>

RunMinutes == {720}

\* time passes while the plugin runs
Tick ==
    /\ \/ \E m \in RunMinutes :
             /\ m > now.min
             /\ now' = [now EXCEPT !.min = m]
       \/ \E m \in RunMinutes :
             /\ now.day < MaxDays
             /\ now' = [date |-> AddDay(now.date), min |-> m, day |-> now.day + 1]
    /\ UNCHANGED <<goals, beeminderDayEndTime, intervalIds, timers, queueTimer, updateQueue,
                   isProcessingQueue, tasks, remote, remoteDeadline, vault, dailyNote,
                   commands, pendingSaves, unloaded, notices, sliderVars, queueVars, stamp>>

(***************************************************************************)
(* Saved settings a start can load                                         *)
(***************************************************************************)
Goal(slug, filePath, isAutoSubmit, metricType, isDailyNote) ==
    [slug |-> slug, filePath |-> filePath, isAutoSubmit |-> isAutoSubmit,
     metricType |-> metricType,
     pollingFrequency |-> [hours |-> 0, minutes |-> 5, seconds |-> 0],
     isDailyNote |-> isDailyNote]

SavedDayEndTimes == {<<0, 0>>, <<12, 0>>}

\* the service, the clock and the documents at start; the service's deadline is the
\* one the user mirrors in the 'Beeminder Day End Time' setting
Environment ==
    /\ beeminderDayEndTime \in SavedDayEndTimes
    /\ remoteDeadline = timeStringToMinutes(beeminderDayEndTime)
    /\ remote = [s \in Slugs |-> <<>>]
    /\ now = [date |-> <<2024, 2, 29>>, min |-> 120, day |-> 0]
    /\ vault = [p \in Paths |-> <<"a", " ", "b">>]
    /\ dailyNote = NoFile

(***************************************************************************)
(* Spec: the scheduler.  Goals with and without auto-submit, timers, the   *)
(* queue and its drain tick, the reconciliations they start, teardown.     *)
(***************************************************************************)
ScheduledGoalLists ==
    {<<Goal("g1", "a.md", TRUE, "wordCount", FALSE)>>,
     <<Goal("g1", "a.md", TRUE, "wordCount", FALSE),
       Goal("g2", "b.md", FALSE, "completedTasks", FALSE)>>,
     <<Goal("g1", "a.md", TRUE, "wordCount", FALSE),
       Goal("g1", "a.md", TRUE, "uncompletedTasks", FALSE)>>,
     <<Goal("g2", "", TRUE, "wordCount", TRUE),
       Goal("g1", "a.md", FALSE, "wordCount", FALSE)>>,
     <<Goal("g2", "b.md", TRUE, "pages", FALSE)>>}

Init ==
    /\ \E gs \in ScheduledGoalLists : Loaded(gs)
    /\ Environment

Next ==
    \/ TimerFire
    \/ QueueTick
    \/ ManualSubmit
    \/ ReadDone
    \/ FetchLastDone
    \/ CreateDone
    \/ UpdateDone
    \/ OnUnload

Spec == Init /\ [][Next]_vars

(***************************************************************************)
(* SpecReconcile: manual triggers only, so that the drain loop is the only *)
(* source of reconciliations, while documents change and time passes.      *)
(***************************************************************************)
ManualGoalLists ==
    {<<Goal("g1", "a.md", FALSE, "wordCount", FALSE)>>,
     <<Goal("g1", "a.md", FALSE, "completedTasks", FALSE),
       Goal("g2", "b.md", FALSE, "wordCount", FALSE)>>}

InitReconcile ==
    /\ \E gs \in ManualGoalLists : Loaded(gs)
    /\ Environment

NextReconcile ==
    \/ QueueTick
    \/ ManualSubmit
    \/ ReadDone
    \/ FetchLastDone
    \/ CreateDone
    \/ UpdateDone
    \/ EditDocument
    \/ Tick

SpecReconcile == InitReconcile /\ [][NextReconcile]_vars

(***************************************************************************)
(* Scheduler claims (Spec)                                                 *)
(***************************************************************************)
\* C1: at every instant at most one reconciliation is in flight across all goals
C1_AtMostOneInFlight == Len(tasks) <= 1

\* C4: a timer fire never starts a reconciliation itself: every reconciliation in
\* flight was started by the drain loop
C4_OnlyDrainLoopStarts == \A k \in 1..Len(tasks) : tasks[k].src = "queue"

\* C5: the in-flight flag is set only while a reconciliation started by the drain loop
\* is running: when that reconciliation is over, failed or not, the loop is idle again
C5_IdleAfterFailure ==
    isProcessingQueue => \E k \in 1..Len(tasks) : tasks[k].src = "queue"

\* C10: after teardown no timer callback takes an entry from the queue, adds one or
\* starts a reconciliation
C10_QuietAfterTeardown ==
    [][unloaded => (updateQueue' = updateQueue /\ Len(tasks') <= Len(tasks))]_vars

(***************************************************************************)
(* Reconciliation claims (SpecReconcile)                                   *)
(***************************************************************************)
\* C2: reconciliations of one goal that fall on the same day-stamp issue exactly one
\* create: the service never holds two datapoints of one goal under one day-stamp
C2_OneCreatePerDay ==
    \A s \in DOMAIN remote : \A i, j \in 1..Len(remote[s]) :
        i < j => remote[s][i].daystamp # remote[s][j].daystamp

\* the day-stamp of the instant a request was decided at, by the rule of spec 4.1
DayOfRequest(task) ==
    ServiceDayStamp([date |-> <<task.ts[1], task.ts[2], task.ts[3]>>, min |-> task.ts[4]],
                    timeStringToMinutes(beeminderDayEndTime))

\* C3: when the goal's last datapoint carries today's day-stamp, the request the
\* reconciliation issues is an update of that datapoint, never a create
C3_UpdateOnSameDay ==
    \A k \in 1..Len(tasks) :
        (/\ tasks[k].pc \in {"create", "update"}
         /\ tasks[k].last # NoDatapoint
         /\ tasks[k].last.daystamp = DayOfRequest(tasks[k]))
        => (/\ tasks[k].pc = "update"
            /\ tasks[k].id = tasks[k].last.id)

(***************************************************************************)
(* Day-stamp claims (SpecDay)                                              *)
(***************************************************************************)
StampDate == <<stamp.at[1], stamp.at[2], stamp.at[3]>>
StampMinute == stamp.at[4]
StampCutoff == timeStringToMinutes(stamp.cutoff)

\* C6: for a cutoff in [00:00, 06:00] the day-stamp is yesterday's date when now is
\* before the cutoff of now's date, and today's date when now is at or after it
C6_NightOwlStamp ==
    (stamp # NoStamp /\ StampCutoff <= 360) =>
        stamp.value = IF StampMinute < StampCutoff
                      THEN FormatYYYYMMDD(SubtractDay(StampDate))
                      ELSE FormatYYYYMMDD(StampDate)

\* C7: for a cutoff in [07:00, 23:59] the day-stamp is tomorrow's date when now is
\* at or after the cutoff of now's date, and today's date when now is before it
C7_EarlyBirdStamp ==
    (stamp # NoStamp /\ StampCutoff >= 420) =>
        stamp.value = IF StampMinute >= StampCutoff
                      THEN FormatYYYYMMDD(AddDay(StampDate))
                      ELSE FormatYYYYMMDD(StampDate)

\* an evaluation exactly at a 12:00 cutoff on the last day of February of a leap year
C7_Witness ==
    /\ stamp # NoStamp
    /\ stamp.cutoff = <<12, 0>>
    /\ stamp.at = <<2024, 2, 29, 720>>
    /\ stamp.value = 20240301

\* C8: the stored Beeminder day-end cutoff is never strictly between 06:00 and 07:00
C8_CutoffNeverInGap ==
    ~(timeStringToMinutes(beeminderDayEndTime) > 360
      /\ timeStringToMinutes(beeminderDayEndTime) < 420)

(***************************************************************************)
(* Reconfiguration claims (SpecConfig)                                     *)
(***************************************************************************)
AutoSubmitPositions == {i \in 1..Len(goals) : goals[i].isAutoSubmit}

\* the live timers are one per auto-submit goal, at its interval, and nothing else
TimersMatchSettings ==
    /\ Cardinality(timers) = Cardinality(AutoSubmitPositions)
    /\ \A i \in AutoSubmitPositions :
          \E t \in timers : t.index = i /\ t.ms = totalMilliseconds(goals[i])

\* C9: once saveSettings has run setupAutoSubmit, the armed timers are exactly one per
\* auto-submit goal of the new settings; no timer of an earlier configuration is live
C9_NoStaleTimer == (pendingSaves = 0) => TimersMatchSettings

\* C11: an auto-submit goal whose polling interval is zero has no timer armed: no
\* live timer has a zero interval
C11_ZeroIntervalUnarmed == \A t \in timers : t.ms # 0

(***************************************************************************)
(* SpecMetric: one goal of each metric type over a bounded set of document *)
(* texts; the metric is what a reconciliation holds after vault.read.      *)
(***************************************************************************)
MaxLen == 3
MaxLines == 3

WordChars == {"a", " ", "\t", "\n"}

\* every text of at most n characters over WordChars
RECURSIVE TextsUpTo(_)
TextsUpTo(n) ==
    IF n = 0 THEN {<<>>}
    ELSE LET shorter == TextsUpTo(n - 1) IN
         shorter \cup {Append(t, c) : t \in shorter, c \in WordChars}

\* "a  b\tc\n"
WordExample == <<"a", " ", " ", "b", "\t", "c", "\n">>

LineChoices ==
    {CompletedMarker \o <<" ", "a">>,
     UncompletedMarker \o <<" ", "b">>,
     <<" ">> \o CompletedMarker \o <<" ", "c">>,
     <<"-", " ", "[", "X", "]">>,
     <<"a", " ">> \o CompletedMarker,
     <<"\r", "\t">> \o UncompletedMarker \o <<" ">>}
LineBreaks == {<<"\n">>, <<"\r", "\n">>}

\* every text of at most n lines of LineChoices
RECURSIVE ListsUpTo(_)
ListsUpTo(n) ==
    IF n = 1 THEN LineChoices
    ELSE LET shorter == ListsUpTo(n - 1) IN
         shorter \cup {t \o b \o l : t \in shorter, b \in LineBreaks, l \in LineChoices}

\* "- [x] a\n- [ ] b\n - [x] c"
TaskExample ==
    CompletedMarker \o <<" ", "a", "\n">> \o UncompletedMarker \o <<" ", "b", "\n", " ">>
    \o CompletedMarker \o <<" ", "c">>

MetricTexts == TextsUpTo(MaxLen) \cup {WordExample} \cup ListsUpTo(MaxLines)

InitMetric ==
    /\ \E metricType \in MetricTypes :
           Loaded(<<Goal("g1", "a.md", FALSE, metricType, FALSE)>>)
    /\ beeminderDayEndTime = <<12, 0>>
    /\ remoteDeadline = timeStringToMinutes(beeminderDayEndTime)
    /\ remote = [s \in Slugs |-> <<>>]
    /\ now = [date |-> <<2024, 2, 29>>, min |-> 120, day |-> 0]
    /\ vault \in [{"a.md"} -> MetricTexts]
    /\ dailyNote = NoFile

NextMetric ==
    \/ QueueTick
    \/ ManualSubmit
    \/ ReadDone
    \/ FetchLastDone
    \/ CreateDone
    \/ UpdateDone

SpecMetric == InitMetric /\ [][NextMetric]_vars

\* maximal runs of non-whitespace characters of a text
Tokens(text) ==
    Cardinality({i \in 1..Len(text) :
                    text[i] \notin WhiteSpace /\ (i = 1 \/ text[i - 1] \in WhiteSpace)})

\* the reconciliations that hold the metric of their document, for one metric type
Measured(metricType) ==
    {k \in 1..Len(tasks) : tasks[k].pc # "read"
                           /\ goals[tasks[k].goal].metricType = metricType}

\* C14: the word-count metric of a document is the number of maximal runs of
\* non-whitespace characters of its text
C14_WordCountIsTokens ==
    \A k \in Measured("wordCount") : tasks[k].value = Tokens(vault[tasks[k].file])

\* first position of text[i..] that is not a blank of the line
RECURSIVE SkipBlanks(_, _)
SkipBlanks(text, i) ==
    IF i <= Len(text) /\ text[i] \in (WhiteSpace \ {"\n"})
    THEN SkipBlanks(text, i + 1) ELSE i

\* positions where a line of the text begins
LineStarts(text) == {1} \cup {i + 1 : i \in {j \in 1..Len(text) : text[j] = "\n"}}

MarkerAt(text, i, marker) ==
    /\ i + Len(marker) - 1 <= Len(text)
    /\ SubSeq(text, i, i + Len(marker) - 1) = marker

\* lines whose first characters after the leading blanks are the marker
MarkedLines(text, marker) ==
    Cardinality({i \in LineStarts(text) : MarkerAt(text, SkipBlanks(text, i), marker)})

\* C15: the completed-task (uncompleted-task) metric is the number of lines whose
\* content without leading and trailing whitespace starts with '- [x]' ('- [ ]')
C15_TaskCountIsMarkedLines ==
    /\ \A k \in Measured("completedTasks") :
          tasks[k].value = MarkedLines(vault[tasks[k].file], CompletedMarker)
    /\ \A k \in Measured("uncompletedTasks") :
          tasks[k].value = MarkedLines(vault[tasks[k].file], UncompletedMarker)

\* the text "- [x] a\n- [ ] b\n - [x] c" measured as 2 completed tasks
C15_Witness ==
    \E k \in Measured("completedTasks") :
        vault[tasks[k].file] = TaskExample /\ tasks[k].value = 2

(***************************************************************************)
(* Trigger and queue claims (Spec)                                         *)
(***************************************************************************)
\* what command c appends: every goal's path in order, or the path of goal c
EntriesFor(c) ==
    IF c = 0 THEN [i \in 1..Len(goals) |-> goals[i].filePath]
    ELSE <<goals[c].filePath>>

\* C12: a step that lengthens the queue appends, behind the entries already there,
\* one entry for goal N or one entry per goal in configuration order, and starts no
\* reconciliation, makes no remote call and leaves the in-flight flag alone
C12_TriggerOnlyAppends ==
    [][Len(updateQueue') > Len(updateQueue) =>
          /\ \E c \in commands :
                c <= Len(goals) /\ updateQueue' = updateQueue \o EntriesFor(c)
          /\ tasks' = tasks
          /\ isProcessingQueue' = isProcessingQueue
          /\ remote' = remote]_vars

\* goal 2 then goal 1 triggered by hand, nothing started
C12_Witness ==
    /\ updateQueue = <<"b.md", "a.md">>
    /\ tasks = <<>>
    /\ ~isProcessingQueue

QueueTasks(ts) == {k \in 1..Len(ts) : ts[k].src = "queue"}

\* C13: the drain loop starts a reconciliation only for the oldest entry of the
\* queue, and only when no reconciliation it started earlier is still running
C13_FirstInFirstOut ==
    [][QueueTasks(tasks') # {} /\ Len(tasks') = Len(tasks) + 1
       /\ tasks'[Len(tasks')].src = "queue" =>
          /\ QueueTasks(tasks) = {}
          /\ updateQueue # <<>>
          /\ updateQueue' = Tail(updateQueue)
          /\ tasks'[Len(tasks')] = NewTask("queue", Head(updateQueue))]_vars

\* the reconciliation of the first entry runs while the second entry waits
C13_Witness ==
    /\ isProcessingQueue
    /\ QueueTasks(tasks) # {}
    /\ \A k \in QueueTasks(tasks) : tasks[k].file = "a.md"
    /\ updateQueue = <<"b.md">>

UnknownMetricTasks(ts) ==
    {k \in 1..Len(ts) : ~(goals[ts[k].goal].metricType \in MetricTypes)}

\* C16: a reconciliation of a goal with an unknown metric kind never gets past the
\* extraction: it issues no request, the service gets no datapoint for the goal,
\* and when it ends the drain loop that started it is idle
C16_UnknownMetricNoRemoteCall ==
    [][/\ \A k \in UnknownMetricTasks(tasks) :
             /\ tasks[k].pc = "read"
             /\ remote[goals[tasks[k].goal].slug] = <<>>
             /\ (tasks' = RemoveAt(tasks, k) /\ tasks[k].src = "queue")
                  => ~isProcessingQueue'
       /\ \A k \in UnknownMetricTasks(tasks') : tasks'[k].pc = "read"]_vars

\* the drain loop has started the reconciliation of a goal with an unknown metric
C16_Witness ==
    /\ isProcessingQueue
    /\ \E k \in UnknownMetricTasks(tasks) : tasks[k].src = "queue" /\ tasks[k].pc = "read"

\* C17: a reconciliation issues create or update only after fetchLast succeeded
C17_NoWriteAfterFailedFetch ==
    \A k \in 1..Len(tasks) :
        tasks[k].pc \in {"create", "update"} => tasks[k].fetched = "ok"

\* the goals whose trigger puts this entry in the queue
OwnersOf(entry) == {g \in 1..Len(goals) : goals[g].filePath = entry}

\* C20: the reconciliation the drain loop starts for an entry has the slug, the metric
\* kind and the document of every goal whose trigger enqueues that entry
C20_ReconcilesTriggeredGoal ==
    [][Len(tasks') = Len(tasks) + 1 /\ tasks'[Len(tasks')].src = "queue" =>
          \A g \in OwnersOf(Head(updateQueue)) :
              LET t == tasks'[Len(tasks')] IN
              /\ goals[t.goal].slug = goals[g].slug
              /\ goals[t.goal].metricType = goals[g].metricType
              /\ t.file = ResolveFile(goals[g], goals[g].filePath)]_vars

(***************************************************************************)
(* Failure claims (SpecReconcile)                                          *)
(***************************************************************************)
Rank(pc) == CASE pc = "read" -> 0 [] pc = "fetchLast" -> 1 [] OTHER -> 2

NextLive ==
    \/ QueueTick
    \/ ManualSubmit
    \/ ReadDone
    \/ FetchLastReturns
    \/ CreateReturns
    \/ UpdateReturns

SpecLive ==
    /\ InitReconcile
    /\ [][NextLive]_vars
    /\ WF_vars(QueueTick /\ updateQueue' # updateQueue)
    /\ WF_vars(ReadDone)
    /\ WF_vars(FetchLastReturns)
    /\ WF_vars(CreateReturns)
    /\ WF_vars(UpdateReturns)

IsPrefix(p, q) == Len(p) <= Len(q) /\ SubSeq(q, 1, Len(p)) = p

\* C19: the queue changes only by entries appended behind the others or by the idle
\* drain loop taking the oldest one, and no entry waits for ever: again and again
\* the queue is empty or its oldest entry is taken
C19_ConsumedOnce ==
    /\ [][\/ IsPrefix(updateQueue, updateQueue')
          \/ (~isProcessingQueue /\ updateQueue # <<>>
              /\ updateQueue' = Tail(updateQueue))]_vars
    /\ \/ []<>(updateQueue = <<>>)
       \/ []<><<updateQueue # <<>> /\ updateQueue' = Tail(updateQueue)>>_updateQueue

\* an entry waits behind a running reconciliation
C19_Witness ==
    /\ isProcessingQueue
    /\ Len(tasks) = 1
    /\ tasks[1].pc \in {"create", "update"}
    /\ updateQueue = <<"b.md">>

(***************************************************************************)
(* Settings claims (SpecConfig, SpecCommands)                              *)
(***************************************************************************)
\* the goals a live timer submits for
ScheduledGoals == {t.index : t \in {u \in timers : u.index <= Len(goals)}}

\* C21: every goal with an armed timer has a non-empty slug, and no two goals with
\* armed timers have the same slug
C21_ScheduledSlugsUnique ==
    (pendingSaves = 0) =>
        /\ \A i \in ScheduledGoals : goals[i].slug # ""
        /\ \A i, j \in ScheduledGoals : i # j => goals[i].slug # goals[j].slug

\* C22: once saveSettings has run, the host has the 'all goals' command and one
\* 'goal N' command for every N from 1 to the number of goals, and no other
C22_CommandPerGoal == (pendingSaves = 0) => commands = 0..Len(goals)

(***************************************************************************)
(* Drain-loop claims (Spec)                                                *)
(***************************************************************************)
\* C23: while a reconciliation is awaiting I/O no step starts another one, and the
\* entries in the queue stay there: the queue only gets longer at its tail
C23_TriggerWhileBusyIsQueued ==
    [][tasks # <<>> =>
          /\ Len(tasks') <= Len(tasks)
          /\ IsPrefix(updateQueue, updateQueue')]_vars

\* C28: among the reconciliations started by the drain loop at most one is in flight
C28_OneDrainReconciliation == Cardinality(QueueTasks(tasks)) <= 1

\* ticks fire while the drain loop's reconciliation awaits and two entries wait
C28_Witness ==
    /\ Cardinality(QueueTasks(tasks)) = 1
    /\ isProcessingQueue
    /\ Len(updateQueue) = 2

\* C29: with the queue empty or the in-flight flag set no step takes an entry or
\* starts a reconciliation of the drain loop; a step that takes entries takes exactly
\* the head, keeps the others in order and makes no change to the service
C29_TickFrame ==
    [][/\ (isProcessingQueue \/ updateQueue = <<>>) =>
             /\ IsPrefix(updateQueue, updateQueue')
             /\ Cardinality(QueueTasks(tasks')) <= Cardinality(QueueTasks(tasks))
       /\ ~IsPrefix(updateQueue, updateQueue') =>
             /\ updateQueue' = Tail(updateQueue)
             /\ remote' = remote]_vars

\* the tick took the entry of goal 2 and left the entry of goal 1
C29_Witness ==
    /\ QueueTasks(tasks) # {}
    /\ \A k \in QueueTasks(tasks) : tasks[k].file = "b.md" /\ tasks[k].pc = "read"
    /\ updateQueue = <<"a.md">>

(***************************************************************************)
(* Decision claims (SpecReconcile)                                         *)
(***************************************************************************)
Deciding == {k \in 1..Len(tasks) : tasks[k].pc \in {"create", "update"}}

\* C24: the request is update exactly when the fetched last datapoint carries the
\* day-stamp the reconciliation computed and has an id, and create otherwise; an
\* update is on the id of that datapoint, never on an empty id
C24_UpdateIffSameDay ==
    \A k \in Deciding :
        /\ (tasks[k].pc = "update") <=>
              (tasks[k].last.daystamp = tasks[k].today /\ tasks[k].last.id # 0)
        /\ tasks[k].pc = "update" => (tasks[k].id # 0 /\ tasks[k].id = tasks[k].last.id)

\* an update on datapoint 1, which carries the computed day-stamp
C24_Witness ==
    \E k \in Deciding :
        /\ tasks[k].pc = "update"
        /\ tasks[k].id = 1
        /\ tasks[k].last.daystamp = tasks[k].today

\* C25: the datapoint a create produces is filed under the day-stamp the
\* reconciliation computed and compared with the last datapoint's
C25_CreateCarriesToday ==
    [][\A s \in DOMAIN remote :
          Len(remote'[s]) > Len(remote[s]) =>
              \E k \in Deciding :
                  /\ tasks[k].pc = "create"
                  /\ goals[tasks[k].goal].slug = s
                  /\ remote'[s][Len(remote'[s])].daystamp = tasks[k].today]_vars

(***************************************************************************)
(* SpecFresh: the datapoints are also changed from outside the plugin      *)
(***************************************************************************)
EditedValue == 9

\* the user alters or deletes the last datapoint of a goal on the service
RemoteEdit ==
    \E s \in Slugs :
        /\ remote[s] # <<>>
        /\ LET pts == remote[s] IN
           \/ remote' = [remote EXCEPT ![s] =
                            [pts EXCEPT ![Len(pts)] = [pts[Len(pts)] EXCEPT !.value = EditedValue]]]
           \/ remote' = [remote EXCEPT ![s] = SubSeq(pts, 1, Len(pts) - 1)]
        /\ remote' # remote
        /\ UNCHANGED <<goals, beeminderDayEndTime, intervalIds, timers, queueTimer,
                       updateQueue, isProcessingQueue, tasks, remoteDeadline, now, vault,
                       dailyNote, commands, pendingSaves, unloaded, notices, sliderVars, queueVars, stamp>>

NextFresh ==
    \/ QueueTick
    \/ ManualSubmit
    \/ ReadDone
    \/ FetchLastDone
    \/ CreateDone
    \/ UpdateDone
    \/ RemoteEdit

SpecFresh == InitReconcile /\ [][NextFresh]_vars

\* what the service holds as the goal's newest datapoint
RemoteLast(slug) ==
    IF remote[slug] = <<>> THEN NoDatapoint ELSE remote[slug][Len(remote[slug])]

\* reconciliations whose GET is answered in this step
Answered(k) ==
    /\ Len(tasks') = Len(tasks)
    /\ tasks[k].pc = "fetchLast"
    /\ tasks'[k].fetched = "ok"

\* C26: the datapoint a reconciliation decides from, and the id it updates, are those
\* the service holds when this reconciliation's own fetch is answered
C26_FetchedFresh ==
    [][\A k \in 1..Len(tasks) :
          Answered(k) =>
              /\ tasks'[k].last = RemoteLast(goals[tasks[k].goal].slug)
              /\ tasks'[k].pc = "update" => tasks'[k].id = tasks'[k].last.id]_vars

\* a reconciliation decides from a value that was changed on the service
C26_Witness ==
    \E k \in Deciding : tasks[k].fetched = "ok" /\ tasks[k].last.value = EditedValue

\* C27: when the service holds no datapoint for the goal, the fetch is answered with
\* the sentinel and the request that follows is create, with no datapoint id
C27_SentinelThenCreate ==
    [][\A k \in 1..Len(tasks) :
          (Answered(k) /\ remote[goals[tasks[k].goal].slug] = <<>>) =>
              /\ tasks'[k].last = NoDatapoint
              /\ tasks'[k].pc = "create"
              /\ tasks'[k].id = 0]_vars

\* a create decided from the sentinel for a goal without datapoints
C27_Witness ==
    \E k \in Deciding :
        /\ tasks[k].pc = "create"
        /\ tasks[k].fetched = "ok"
        /\ tasks[k].last = NoDatapoint
        /\ remote[goals[tasks[k].goal].slug] = <<>>

(***************************************************************************)
(* SpecFair: manual triggers under a fair drain tick, with every outcome   *)
(* of a request                                                            *)
(***************************************************************************)
NextFair ==
    \/ QueueTick
    \/ ManualSubmit
    \/ ReadDone
    \/ FetchLastDone
    \/ CreateDone
    \/ UpdateDone

SpecFair ==
    /\ InitReconcile
    /\ [][NextFair]_vars
    /\ WF_vars(QueueTick /\ updateQueue' # updateQueue)
    /\ WF_vars(ReadDone)
    /\ WF_vars(FetchLastDone)
    /\ WF_vars(CreateDone)
    /\ WF_vars(UpdateDone)

\* the same goal enqueued twice
TwiceQueued == updateQueue = <<"a.md", "a.md">>

\* the reconciliation of the first entry has started, the second entry waits
FirstRuns ==
    /\ Len(tasks) = 1
    /\ tasks[1].src = "queue" /\ tasks[1].file = "a.md" /\ tasks[1].pc = "read"
    /\ updateQueue # <<>> /\ Head(updateQueue) = "a.md"

\* the first reconciliation is over, the drain loop is idle, the second entry waits
FirstOver ==
    /\ tasks = <<>>
    /\ ~isProcessingQueue
    /\ updateQueue # <<>> /\ Head(updateQueue) = "a.md"

\* a reconciliation of the goal has started
Runs ==
    /\ Len(tasks) = 1
    /\ tasks[1].src = "queue" /\ tasks[1].file = "a.md" /\ tasks[1].pc = "read"

\* C30: two entries of one goal in the queue lead to two reconciliations of that
\* goal in a row: the first starts while the second waits, it ends, the second starts
C30_TwoEntriesTwoRuns ==
    /\ TwiceQueued ~> FirstRuns
    /\ FirstRuns ~> FirstOver
    /\ FirstOver ~> Runs

(***************************************************************************)
(* SpecWindow: goals are removed in the settings tab while their timers    *)
(* and commands are live; saveSettings re-arms and re-registers only after *)
(* saveData has resolved.  The reconciliations that start in the window   *)
(* are followed up to their first await.                                   *)
(***************************************************************************)
WindowGoalLists ==
    {<<Goal("g1", "a.md", TRUE, "wordCount", FALSE),
       Goal("g2", "b.md", TRUE, "wordCount", FALSE)>>,
     <<Goal("g1", "a.md", TRUE, "wordCount", FALSE),
       Goal("g2", "b.md", FALSE, "wordCount", FALSE)>>}

InitWindow ==
    /\ \E gs \in WindowGoalLists : Loaded(gs)
    /\ Environment

NextWindow ==
    \/ RemoveGoal
    \/ SaveSettingsResume
    \/ TimerFire
    \/ ManualSubmit
    \/ QueueTick

SpecWindow == InitWindow /\ [][NextWindow]_vars

\* the slug whose setInterval call returned the id of timer t
ArmedBy(t) == {s \in DOMAIN intervalIds : intervalIds[s] = t.id}

\* C31: a live timer acts on the goal that armed it: the position it carries is the
\* position of a configured goal, and that goal is the one it was armed for
C31_TimerKeepsItsGoal ==
    \A t \in timers : \A s \in ArmedBy(t) :
        /\ t.index <= Len(goals)
        /\ goals[t.index].slug = s

\* C33: a command for the goal at one position adds the entry of that goal and
\* nothing else; for a position past the last goal it adds nothing
C33_IndexedTriggerIsSingle ==
    \A c \in commands \ {0} :
        manualSubmitDatapoint(updateQueue, goals, c)
            = IF c <= Len(goals)
              THEN Append(updateQueue, goals[c].filePath)
              ELSE updateQueue

(***************************************************************************)
(* SpecDaily: goals on the daily note, which exists or not, and a goal on  *)
(* a path that is not a file of the vault                                  *)
(***************************************************************************)
DailyGoalLists ==
    {<<Goal("g2", "", TRUE, "wordCount", TRUE)>>,
     <<Goal("g1", "b.md", TRUE, "wordCount", FALSE),
       Goal("g2", "a.md", FALSE, "wordCount", FALSE)>>,
     <<Goal("g2", "", FALSE, "wordCount", TRUE),
       Goal("g1", "b.md", FALSE, "wordCount", FALSE)>>}

InitDaily ==
    /\ \E gs \in DailyGoalLists : Loaded(gs)
    /\ beeminderDayEndTime \in SavedDayEndTimes
    /\ remoteDeadline = timeStringToMinutes(beeminderDayEndTime)
    /\ remote = [s \in Slugs |-> <<>>]
    /\ now = [date |-> <<2024, 2, 29>>, min |-> 120, day |-> 0]
    /\ vault = [p \in {"a.md"} |-> <<"a", " ", "b">>]
    /\ dailyNote \in {NoFile, "a.md"}

NextDaily ==
    \/ TimerFire
    \/ QueueTick
    \/ ManualSubmit
    \/ ReadDone
    \/ FetchLastDone
    \/ CreateDone
    \/ UpdateDone

SpecDaily == InitDaily /\ [][NextDaily]_vars

\* the drain loop takes the entry at the head of the queue
TakesHead ==
    /\ updateQueue # <<>>
    /\ updateQueue' = Tail(updateQueue)

\* C32: the entry of a manual trigger for a daily-note goal, whose path is empty, is
\* not discarded by the drain loop: when the loop takes it and the daily note exists,
\* a reconciliation of the daily note starts
C32_DailyNoteEntryProcessed ==
    [][(/\ TakesHead
        /\ Head(updateQueue) = ""
        /\ dailyNote # NoFile
        /\ \E g \in 1..Len(goals) : goals[g].isDailyNote /\ goals[g].filePath = "")
       => /\ Len(tasks') = Len(tasks) + 1
          /\ tasks'[Len(tasks')].file = dailyNote]_vars

\* the document of the goal that is looked up for entry e is not there
Unresolvable(e) ==
    LET g == FindGoal(goals, e) IN
    /\ g # 0
    /\ IF goals[g].isDailyNote THEN dailyNote = NoFile ELSE e \notin DOMAIN vault

C35_OneFetchOneWrite ==
    [][Len(tasks') = Len(tasks) =>
          \A k \in 1..Len(tasks) :
              \/ tasks'[k] = tasks[k]
              \/ /\ tasks'[k].goal = tasks[k].goal
                 /\ \/ /\ tasks[k].pc = "read"
                       /\ tasks'[k].pc = "fetchLast"
                       /\ tasks'[k].fetched = ""
                    \/ /\ tasks[k].pc = "fetchLast"
                       /\ tasks'[k].pc \in {"create", "update"}
                       /\ tasks'[k].fetched # ""]_vars

\* a create that follows a GET which returned a datapoint of an earlier day
C35_Witness ==
    \E k \in Deciding :
        /\ tasks[k].pc = "create"
        /\ tasks[k].fetched = "ok"
        /\ tasks[k].last.id # 0
        /\ tasks[k].last.daystamp # tasks[k].today

(***************************************************************************)
(* The day-stamp along the clock (SpecDay)                                 *)
(***************************************************************************)
\* the date a YYYYMMDD stamp names
ParseYYYYMMDD(n) == <<n \div 10000, (n \div 100) % 100, n % 100>>

RECURSIVE AddDays(_, _)
AddDays(date, n) == IF n = 0 THEN date ELSE AddDays(AddDay(date), n - 1)

\* how many times the cutoff instant lies in (from, to]
Crossings(from, to, cutoff) ==
    (to.day - from.day) + (IF from.min < cutoff THEN 1 ELSE 0)
                        - (IF to.min < cutoff THEN 1 ELSE 0)

\* C34: as the clock advances the day-stamp never goes back, and it moves on by one
\* calendar day each time the clock passes the cutoff and at no other instant: not at
\* midnight, unless the cutoff is 00:00
C34_StampStepsAtCutoff ==
    [][now' # now =>
          LET before == getCurrentDayStamp(now, beeminderDayEndTime)
              after == getCurrentDayStamp(now', beeminderDayEndTime)
              n == Crossings(now, now', timeStringToMinutes(beeminderDayEndTime))
          IN /\ after >= before
             /\ after = FormatYYYYMMDD(AddDays(ParseYYYYMMDD(before), n))]_vars

\* an evaluation at midnight under a 12:00 cutoff: the stamp is still the one that
\* began at noon of the day before
C34_Witness ==
    /\ stamp # NoStamp
    /\ stamp.cutoff = <<12, 0>>
    /\ stamp.at = <<2024, 3, 1, 0>>
    /\ stamp.value = 20240301

(***************************************************************************)
(* SpecSliders: the settings tab with an hour and a minute slider for the  *)
(* day end time (src/unnamed/part_001).  display() keeps what the sliders  *)
(* show in two locals; a change is stored when validateTime accepts it.    *)
(***************************************************************************)
MaxNotices == 2
HourChoices == {0, 5, 6, 7, 23}
SliderMinuteChoices == {0, 30, 59}

\* moment({ hours, minutes }).format('HH:mm'), a time string being <<h, m>>
formatTime(hours, minutes) == minutesToTimeString((hours * 60 + minutes) % 1440)

\* everything but the settings tab's day end time and its notices
pluginVars == <<goals, beeminderDayEndTime, intervalIds, timers, queueTimer, updateQueue,
                isProcessingQueue, tasks, remote, remoteDeadline, now, vault, dailyNote,
                commands, unloaded, queueVars, stamp>>

\* the tab is drawn: the locals are read from the stored hour and minute
Display ==
    /\ ~unloaded
    /\ hourValue' = dayEndHour
    /\ minuteValue' = dayEndMinute
    /\ <<hourValue', minuteValue'>> # <<hourValue, minuteValue>>
    /\ UNCHANGED <<dayEndHour, dayEndMinute, settingsDayEndTime, notices, pendingSaves>>
    /\ UNCHANGED pluginVars

HourSliderChange ==
    \E value \in HourChoices :
        /\ ~unloaded
        /\ value # hourValue
        /\ hourValue' = value
        /\ IF validateTime(value, minuteValue)
           THEN /\ dayEndHour' = value
                /\ settingsDayEndTime' = formatTime(value, minuteValue)
                /\ SaveSettingsCall
                /\ UNCHANGED notices
           ELSE /\ notices < MaxNotices
                /\ notices' = notices + 1
                /\ UNCHANGED <<dayEndHour, settingsDayEndTime, pendingSaves>>
        /\ UNCHANGED <<dayEndMinute, minuteValue>>
        /\ UNCHANGED pluginVars

MinuteSliderChange ==
    \E value \in SliderMinuteChoices :
        /\ ~unloaded
        /\ value # minuteValue
        /\ minuteValue' = value
        /\ IF validateTime(hourValue, value)
           THEN /\ dayEndMinute' = value
                /\ settingsDayEndTime' = formatTime(hourValue, value)
                /\ SaveSettingsCall
                /\ UNCHANGED notices
           ELSE /\ notices < MaxNotices
                /\ notices' = notices + 1
                /\ UNCHANGED <<dayEndMinute, settingsDayEndTime, pendingSaves>>
        /\ UNCHANGED <<dayEndHour, hourValue>>
        /\ UNCHANGED pluginVars

NextSliders ==
    \/ HourSliderChange
    \/ MinuteSliderChange
    \/ Display
    \/ SaveSettingsResume

SpecSliders == InitDefault /\ [][NextSliders]_vars

\* C37: in the tab with the two sliders the stored day end time is the stored hour
\* and minute written HH:mm, after any sequence of slider changes, rejected ones
\* included
C37_StoredTimeAgrees ==
    settingsDayEndTime = formatTime(dayEndHour, dayEndMinute)

(***************************************************************************)
(* SpecQueue: a Queue taken alone, from its construction, under any        *)
(* sequence of enqueue, dequeue and peek.  returned is what the last call  *)
(* returned, enqueues and dequeues count the calls that added and that     *)
(* returned an element.                                                    *)
(***************************************************************************)
MaxOps == 4

\* everything but the queue and its log
besidesQueue == <<goals, beeminderDayEndTime, intervalIds, timers, queueTimer,
                  isProcessingQueue, tasks, remote, remoteDeadline, now, vault, dailyNote,
                  commands, pendingSaves, unloaded, notices, sliderVars, stamp>>

QueueEnqueue ==
    \E element \in Paths :
        /\ enqueues < MaxOps
        /\ updateQueue' = enqueue(updateQueue, element)
        /\ returned' = [op |-> "enqueue", value |-> Undefined]
        /\ enqueues' = enqueues + 1
        /\ UNCHANGED dequeues
        /\ UNCHANGED besidesQueue

QueueDequeue ==
    LET d == dequeue(updateQueue) IN
    /\ updateQueue' = d.rest
    /\ returned' = [op |-> "dequeue", value |-> d.value]
    /\ dequeues' = IF d.value # Undefined THEN dequeues + 1 ELSE dequeues
    /\ UNCHANGED enqueues
    /\ UNCHANGED besidesQueue

QueuePeek ==
    /\ returned' = [op |-> "peek", value |-> peek(updateQueue)]
    /\ UNCHANGED <<updateQueue, enqueues, dequeues>>
    /\ UNCHANGED besidesQueue

NextQueue ==
    \/ QueueEnqueue
    \/ QueueDequeue
    \/ QueuePeek

SpecQueue == InitDefault /\ [][NextQueue]_vars

\* C38: peek leaves the queue as it is and returns the element the next dequeue
\* returns; on an empty queue peek and dequeue return undefined and the queue stays
\* empty
C38_PeekIsNextDequeue ==
    [][/\ returned'.op = "peek" => updateQueue' = updateQueue
       /\ (returned.op = "peek" /\ returned'.op = "dequeue")
             => returned'.value = returned.value
       /\ (updateQueue = <<>> /\ returned'.op \in {"peek", "dequeue"})
             => (returned'.value = Undefined /\ updateQueue' = <<>>)]_vars

\* a peek at a queue of two different elements
C38_Witness ==
    /\ returned = [op |-> "peek", value |-> "a.md"]
    /\ updateQueue = <<"a.md", "b.md">>

\* C39: length() is the number of enqueue calls minus the number of dequeue calls
\* that returned an element, and isEmpty() is true exactly when length() is 0
C39_LengthCounts ==
    /\ length(updateQueue) = enqueues - dequeues
    /\ isEmpty(updateQueue) <=> (length(updateQueue) = 0)

\* two elements went in and came out, and one more dequeue returned undefined
C39_Witness ==
    /\ returned = [op |-> "dequeue", value |-> Undefined]
    /\ enqueues = 2 /\ dequeues = 2
    /\ updateQueue = <<>>
====
